---- MODULE Spec2Model ----
(***************************************************************************)
(* The RecordTable layer of pishne (src/root.py): record identity,         *)
(* timestamps, soft delete, the derived-column operator of the actions     *)
(* table and the persisted layer.                                          *)
(*                                                                         *)
(* A DataFrame is [none, columns, rows]: none is TRUE for self.data = None,*)
(* columns is the set of column names and rows the sequence of rows, each  *)
(* a function from columns to values.  A RecId "Rec0012" is kept as the    *)
(* sequence of its decimal digits <<0,0,1,2>>; a RecTimestamp is the       *)
(* number of seconds on the clock (the "%Y-%m-%d %H:%M:%S" text orders as  *)
(* the clock does).  Python's None and pandas' NaN are the markers None_   *)
(* and NaN_ (NoneNum and NaNNum in the numeric column).                    *)
(***************************************************************************)
EXTENDS Integers, Sequences, FiniteSets, Bags, TLC

VARIABLES cls, data, store, file_data, now, last, view_out, other, db

vars == <<cls, data, store, file_data, now, last, view_out, other, db>>

\* what a call on this session's table leaves alone: the table object of the
\* other session and the other tables of the database
elsewhere == <<other, db>>

\* ------------------------------------------------------------------ bounds
MaxRows == 2
MaxRowsLong == 3
MaxStoreRows == 1
MaxRowsCodes == 5
MaxTime == 1

\* --------------------------------------------------------------- constants
id_size == 4

None_ == "None"
NaN_ == "NaN"
NoneNum == 0 - 1
NaNNum == 0 - 2

Range(s) == {s[i] : i \in 1..Len(s)}

\* ------------------------------------------------------------------ schema
columns_base == <<"RecId", "RecTable", "RecTimestamp", "RecStatus">>

SubcRT_columns_data == <<"cod_subcomponente", "desc_subcomponente", "cod_componente">>

AcoesRT_columns_data ==
    <<"cod_componente", "cod_subcomponente", "nm_tematica", "cod_acao",
      "desc_acao", "valor_investimento", "origem_investimento", "escala_acao">>

CompRT_columns_data == <<"cod_componente", "nm_componente", "desc_componente">>

EscalaRT_columns_data == <<"escala_acao", "categoria">>

columns_data(c) ==
    CASE c = "acoes" -> AcoesRT_columns_data
      [] c = "componentes" -> CompRT_columns_data
      [] c = "escala" -> EscalaRT_columns_data
      [] OTHER -> SubcRT_columns_data

_get_organized_columns(c) == columns_base \o columns_data(c)

NumericColumns == {"valor_investimento"}

NoneOf(k) == IF k \in NumericColumns THEN NoneNum ELSE None_
NaNOf(k) == IF k \in NumericColumns THEN NaNNum ELSE NaN_
IsNull(k, v) == v = NoneOf(k) \/ v = NaNOf(k)

\* v is None; the RecId and RecTimestamp of the model are never None
is_None(k, v) == k \notin {"RecId", "RecTimestamp"} /\ v = NoneOf(k)

\* ---------------------------------------------------------- text of a RecId
\* str(n): the decimal digits of n, most significant first
RECURSIVE str(_)
str(n) == IF n < 10 THEN <<n>> ELSE str(n \div 10) \o <<n % 10>>

\* s.zfill(w): s padded on the left with zeros to at least w characters
RECURSIVE zfill(_, _)
zfill(s, w) == IF Len(s) >= w THEN s ELSE zfill(<<0>> \o s, w)

\* int(s) of a digit string
RECURSIVE int(_)
int(s) == IF Len(s) = 0 THEN 0 ELSE 10 * int(SubSeq(s, 1, Len(s) - 1)) + s[Len(s)]

\* a <= b for two texts, as Python orders str: character by character, a
\* proper prefix first
RECURSIVE StrLeq(_, _)
StrLeq(a, b) ==
    IF Len(a) = 0 THEN TRUE
    ELSE IF Len(b) = 0 THEN FALSE
    ELSE IF a[1] < b[1] THEN TRUE
    ELSE IF a[1] > b[1] THEN FALSE
    ELSE StrLeq(Tail(a), Tail(b))

\* the text of a count inside an action code
DigitChar == <<"0", "1", "2", "3", "4", "5", "6", "7", "8", "9">>
RECURSIVE StrText(_)
StrText(n) == IF n < 10 THEN DigitChar[n + 1] ELSE StrText(n \div 10) \o DigitChar[(n % 10) + 1]

\* --------------------------------------------------------------- DataFrame
NoData == [none |-> TRUE, columns |-> {}, rows |-> <<>>]

Frame(cols, rows) == [none |-> FALSE, columns |-> cols, rows |-> rows]

RecIds(df) == {df.rows[i]["RecId"] : i \in 1..Len(df.rows)}

\* concat with the frames in the other order: the new row comes first
concat_front(df, row) ==
    IF df.none THEN Frame(DOMAIN row, <<row>>)
    ELSE LET cols == df.columns \cup DOMAIN row
             ext(r) == [k \in cols |-> IF k \in DOMAIN r THEN r[k] ELSE NaNOf(k)]
         IN  Frame(cols, <<ext(row)>> \o [i \in 1..Len(df.rows) |-> ext(df.rows[i])])

\* pd.concat([df, one-row frame]).reset_index(drop=True): None is dropped,
\* the columns are united and a missing cell is NaN
concat(df, row) ==
    IF df.none THEN Frame(DOMAIN row, <<row>>)
    ELSE LET cols == df.columns \cup DOMAIN row
             ext(r) == [k \in cols |-> IF k \in DOMAIN r THEN r[k] ELSE NaNOf(k)]
         IN  Frame(cols, [i \in 1..Len(df.rows) |-> ext(df.rows[i])] \o <<ext(row)>>)

\* ------------------------------------------------------------ next record id
\* raises IndexError: values[-1] of a frame with no rows
_last_id_int_raises(df) == ~df.none /\ Len(df.rows) = 0

\* sort_values(by=RecId) orders the RecId texts; the last one is parsed
_last_id_int(df) ==
    IF df.none THEN 0
    ELSE int(CHOOSE r \in RecIds(df) : \A q \in RecIds(df) : StrLeq(q, r))

_next_recid(df) == zfill(str(_last_id_int(df) + 1), id_size)

\* _filter_dict_rec that lets every key through
_filter_dict_rec_open(c, input_dict) == input_dict

_filter_dict_rec(c, input_dict) ==
    [k \in (DOMAIN input_dict) \cap Range(columns_data(c)) |-> input_dict[k]]

\* ------------------------------------------------- the derived column
\* sub_cod.split(" ")[-1] on the sub-component codes of the model
Subs == {"sub 1", "sub 2"}

split_last(sub_cod) ==
    CASE sub_cod = "sub 1" -> "1"
      [] sub_cod = "sub 2" -> "2"
      [] OTHER -> sub_cod

\* Series.unique(): the values in order of first appearance
RECURSIVE unique(_)
unique(s) ==
    IF Len(s) = 0 THEN <<>>
    ELSE LET init == unique(SubSeq(s, 1, Len(s) - 1))
             x == s[Len(s)]
         IN  IF x \in Range(init) THEN init ELSE Append(init, x)

\* the codes of one sub-component group, in the order of its rows
group_codes(df, sub_cod) ==
    LET df_q == SelectSeq(df.rows, LAMBDA r : r["cod_subcomponente"] = sub_cod)
        c(i) == Cardinality({j \in 1..i : df_q[j]["RecStatus"] = "On"})
    IN  [i \in 1..Len(df_q) |->
            IF df_q[i]["RecStatus"] = "On"
            THEN "acao " \o split_last(sub_cod) \o "." \o StrText(c(i))
            ELSE "acao arquivada"]

RECURSIVE codes_of_groups(_, _)
codes_of_groups(df, ls_unique_sub) ==
    IF Len(ls_unique_sub) = 0 THEN <<>>
    ELSE group_codes(df, Head(ls_unique_sub)) \o codes_of_groups(df, Tail(ls_unique_sub))

\* the exception update_acoes_codes ends in, "none" when it returns
update_acoes_codes_exc(df) ==
    IF "cod_subcomponente" \notin df.columns THEN "KeyError"
    ELSE IF \E i \in 1..Len(df.rows) :
                IsNull("cod_subcomponente", df.rows[i]["cod_subcomponente"])
         THEN "AttributeError"
         ELSE "none"

\* ls_codes: the groups' codes one group after the other
update_acoes_codes(df) ==
    codes_of_groups(df, unique([i \in 1..Len(df.rows) |-> df.rows[i]["cod_subcomponente"]]))

\* refresh_data that fills only the cells that hold no code yet
refresh_data_filling(c, df) ==
    IF c # "acoes" THEN [data |-> df, exc |-> "none"]
    ELSE IF update_acoes_codes_exc(df) # "none"
         THEN [data |-> df, exc |-> update_acoes_codes_exc(df)]
         ELSE LET ls_codes == update_acoes_codes(df)
                  cols == df.columns \cup {"cod_acao"}
              IN  [data |-> Frame(cols,
                              [i \in 1..Len(df.rows) |->
                                  [k \in cols |->
                                      IF k # "cod_acao" THEN df.rows[i][k]
                                      ELSE IF k \in df.columns /\ ~IsNull(k, df.rows[i][k])
                                           THEN df.rows[i][k]
                                           ELSE ls_codes[i]]]),
                   exc |-> "none"]

\* self.data[c] = self.operator[c](): the list is assigned by position
refresh_data(c, df) ==
    IF c # "acoes" THEN [data |-> df, exc |-> "none"]
    ELSE IF update_acoes_codes_exc(df) # "none"
         THEN [data |-> df, exc |-> update_acoes_codes_exc(df)]
         ELSE LET ls_codes == update_acoes_codes(df)
                  cols == df.columns \cup {"cod_acao"}
              IN  [data |-> Frame(cols,
                              [i \in 1..Len(df.rows) |->
                                  [k \in cols |-> IF k = "cod_acao" THEN ls_codes[i]
                                                  ELSE df.rows[i][k]]]),
                   exc |-> "none"]

\* ------------------------------------------------------------- RecordTable
RecordTable_insert_record(c, df, dict_rec, t) ==
    IF _last_id_int_raises(df) THEN [data |-> df, exc |-> "IndexError"]
    ELSE LET f == _filter_dict_rec(c, dict_rec)
             row == [k \in (DOMAIN f) \cup Range(columns_base) |->
                        CASE k = "RecTable" -> c
                          [] k = "RecId" -> _next_recid(df)
                          [] k = "RecTimestamp" -> t
                          [] k = "RecStatus" -> "On"
                          [] OTHER -> f[k]]
         IN  [data |-> concat(df, row), exc |-> "none"]

\* edit_record as a hard delete would have it: the named row is dropped
RecordTable_edit_record_drops(c, df, rec_id, dict_rec, filter_dict, t) ==
    IF df.none THEN [data |-> df, exc |-> "AttributeError"]
    ELSE IF rec_id \notin RecIds(df) THEN [data |-> df, exc |-> "KeyError"]
    ELSE [data |-> Frame(df.columns, SelectSeq(df.rows, LAMBDA r : r["RecId"] # rec_id)),
          exc |-> "none"]

\* edit_record without the timestamp of the edit
RecordTable_edit_record_unstamped(c, df, rec_id, dict_rec, filter_dict, t) ==
    IF df.none THEN [data |-> df, exc |-> "AttributeError"]
    ELSE IF rec_id \notin RecIds(df) THEN [data |-> df, exc |-> "KeyError"]
    ELSE LET f == IF filter_dict THEN _filter_dict_rec(c, dict_rec) ELSE dict_rec
             sr(r) == [k \in df.columns |->
                          IF k = "RecId" \/ k = "RecTimestamp" THEN r[k]
                          ELSE IF k \in DOMAIN f THEN f[k]
                          ELSE r[k]]
         IN  [data |-> Frame(df.columns,
                         [i \in 1..Len(df.rows) |->
                             IF df.rows[i]["RecId"] = rec_id THEN sr(df.rows[i])
                             ELSE df.rows[i]]),
              exc |-> "none"]

\* df.loc[rec_id] = sr: the cells of the row are replaced by label; a key
\* of the change set that is no column of the frame is dropped, and RecId
\* is the index of the frame, not a column of it
RecordTable_edit_record(c, df, rec_id, dict_rec, filter_dict, t) ==
    IF df.none THEN [data |-> df, exc |-> "AttributeError"]
    ELSE IF rec_id \notin RecIds(df) THEN [data |-> df, exc |-> "KeyError"]
    ELSE LET f == IF filter_dict THEN _filter_dict_rec(c, dict_rec) ELSE dict_rec
             sr(r) == [k \in df.columns |->
                          IF k = "RecId" THEN r[k]
                          ELSE IF k = "RecTimestamp" THEN t
                          ELSE IF k \in DOMAIN f THEN f[k]
                          ELSE r[k]]
         IN  [data |-> Frame(df.columns,
                         [i \in 1..Len(df.rows) |->
                             IF df.rows[i]["RecId"] = rec_id THEN sr(df.rows[i])
                             ELSE df.rows[i]]),
              exc |-> "none"]

RecordTable_archive_record(c, df, rec_id, t) ==
    RecordTable_edit_record(c, df, rec_id, [RecStatus |-> "Off"], FALSE, t)

\* view_rows with the sort upwards: the oldest rows come first
view_rows_oldest(df, recent) ==
    LET on == {i \in 1..Len(df.rows) : df.rows[i]["RecStatus"] = "On"}
        n == Cardinality(on)
        m == IF recent = 0 - 1 \/ recent > n THEN n ELSE recent
        sorted == {p \in [1..n -> on] :
                     /\ \A i, j \in 1..n : i # j => p[i] # p[j]
                     /\ \A i, j \in 1..n :
                           i < j => IF recent = 0 - 1 THEN p[i] < p[j]
                                    ELSE df.rows[p[i]]["RecTimestamp"]
                                           <= df.rows[p[j]]["RecTimestamp"]}
    IN  {SubSeq(p, 1, m) : p \in sorted}

\* the rows view selects, as positions in df.rows: the active rows; with
\* recent, sorted by RecTimestamp downwards (rows of equal timestamp in any
\* order) and cut to the first `recent`; recent = -1 stands for None
view_rows(df, recent) ==
    LET on == {i \in 1..Len(df.rows) : df.rows[i]["RecStatus"] = "On"}
        n == Cardinality(on)
        m == IF recent = 0 - 1 \/ recent > n THEN n ELSE recent
        sorted == {p \in [1..n -> on] :
                     /\ \A i, j \in 1..n : i # j => p[i] # p[j]
                     /\ \A i, j \in 1..n :
                           i < j => IF recent = 0 - 1 THEN p[i] < p[j]
                                    ELSE df.rows[p[i]]["RecTimestamp"]
                                           >= df.rows[p[j]]["RecTimestamp"]}
    IN  {SubSeq(p, 1, m) : p \in sorted}

\* the frames view can return: the selected rows without the base columns
view(df, recent) ==
    LET cols == df.columns \ Range(columns_base)
    IN  {Frame(cols, [i \in 1..Len(p) |-> [k \in cols |-> df.rows[p[i]][k]]]) :
            p \in view_rows(df, recent)}

\* view that selects every row when filter_status is False
view_honouring(df, filter_status, recent) ==
    IF filter_status THEN view(df, recent)
    ELSE LET cols == df.columns \ Range(columns_base)
             m == IF recent = 0 - 1 \/ recent > Len(df.rows) THEN Len(df.rows) ELSE recent
         IN  {Frame(cols, [i \in 1..m |-> [k \in cols |-> df.rows[i][k]]])}

\* view(filter_status, recent): filter_status is not read, the query on
\* RecStatus is made whatever its value
view_filter(df, filter_status, recent) == view(df, recent)

\* get_record(rec_id): df.loc[rec_id] raises KeyError for an id in no row
get_record_exc(df, rec_id) ==
    IF df.none THEN "AttributeError"
    ELSE IF rec_id \notin RecIds(df) THEN "KeyError"
    ELSE "none"

\* the record as a one-row frame
get_record(df, rec_id) ==
    Frame(df.columns, <<df.rows[CHOOSE i \in 1..Len(df.rows) : df.rows[i]["RecId"] = rec_id]>>)

\* ------------------------------------------------- joining the database
\* view(): the one frame view gives without `recent`
view_all(df) == CHOOSE f \in view(df, 0 - 1) : TRUE

\* pd.merge(left, right, on=on, how="left", suffixes=("", "_drop")) followed
\* by the drop of the "_drop" columns: a left row once for each right row of
\* the same key, in the order of the right frame, and once with NaN when no
\* right row has its key; a column both frames have keeps the left value
RECURSIVE merge_rows(_, _, _, _)
merge_rows(lrows, rrows, on, cols) ==
    IF Len(lrows) = 0 THEN <<>>
    ELSE LET l == Head(lrows)
             m == SelectSeq(rrows, LAMBDA r : r[on] = l[on])
             out == IF Len(m) = 0
                    THEN <<[k \in cols |-> IF k \in DOMAIN l THEN l[k] ELSE NaNOf(k)]>>
                    ELSE [j \in 1..Len(m) |->
                             [k \in cols |-> IF k \in DOMAIN l THEN l[k] ELSE m[j][k]]]
         IN  out \o merge_rows(Tail(lrows), rrows, on, cols)

\* the merge with how="outer": the right rows no left row matches are kept
merge_outer(left, right, on) ==
    LET cols == left.columns \cup right.columns
        alone == SelectSeq(right.rows,
                           LAMBDA r : \A i \in 1..Len(left.rows) : left.rows[i][on] # r[on])
    IN  Frame(cols, merge_rows(left.rows, right.rows, on, cols)
                    \o [i \in 1..Len(alone) |->
                           [k \in cols |-> IF k \in DOMAIN alone[i] THEN alone[i][k]
                                           ELSE NaNOf(k)]])

merge_left(left, right, on) ==
    Frame(left.columns \cup right.columns,
          merge_rows(left.rows, right.rows, on, left.columns \cup right.columns))

\* join_db: the active actions, joined to the active sub-components and
\* then to the active components; the order of the columns is not kept
join_db_exc(acoes, d) ==
    IF acoes.none \/ d.subcomponentes.none \/ d.componentes.none THEN "AttributeError"
    ELSE "none"

join_db(acoes, d) ==
    merge_left(merge_left(view_all(acoes), view_all(d.subcomponentes), "cod_subcomponente"),
               view_all(d.componentes), "cod_componente")

\* ---------------------------------------------------- expanding by scale
ls_ufs == <<"MA", "PI", "CE", "RN", "PB", "PE", "AL", "SE", "BA">>

n_ufs == Len(ls_ufs)

Wildcard == "Todos Estados"

\* str.contains(pat) with a pattern of plain characters: pat occurs in text
contains(text, pat) ==
    \E i \in 1..(Len(text) - Len(pat) + 1) : SubSeq(text, i, i + Len(pat) - 1) = pat

\* the rows one row of the scale table gives: the rows of the join whose
\* escala_acao contains its scale, labelled in escala_local; the wildcard
\* gives them once for each geography
expand_block(df1, s_escala, s_cat) ==
    LET f == SelectSeq(df1.rows, LAMBDA r : contains(r["escala_acao"], s_escala))
        label(r, l) == [k \in (DOMAIN r) \cup {"escala_local"} |->
                           IF k = "escala_local" THEN l ELSE r[k]]
    IN  IF s_cat = "UF" /\ s_escala = Wildcard
        THEN [n \in 1..(n_ufs * Len(f)) |->
                 label(f[((n - 1) % Len(f)) + 1], ls_ufs[((n - 1) \div Len(f)) + 1])]
        ELSE [i \in 1..Len(f) |-> label(f[i], s_escala)]

\* ls_full concatenated: every row of the scale table, whatever its
\* RecStatus, in the order of the table
RECURSIVE expand_blocks(_, _)
expand_blocks(df1, erows) ==
    IF Len(erows) = 0 THEN <<>>
    ELSE expand_block(df1, Head(erows)["escala_acao"], Head(erows)["categoria"])
         \o expand_blocks(df1, Tail(erows))

RECURSIVE BagOf(_)
BagOf(rows) == IF Len(rows) = 0 THEN EmptyBag ELSE SetToBag({Head(rows)}) (+) BagOf(Tail(rows))

\* pd.concat of no frame raises ValueError
expand_db_exc(acoes, d) ==
    IF join_db_exc(acoes, d) # "none" THEN join_db_exc(acoes, d)
    ELSE IF d.escala.none THEN "TypeError"
    ELSE IF Len(d.escala.rows) = 0 THEN "ValueError"
    ELSE "none"

\* the rows of the expanded frame, in the order of the concatenation
expand_rows(acoes, d) == expand_blocks(join_db(acoes, d), d.escala.rows)

\* expand_db: sort_values(by="cod_acao") fixes no order for rows of one
\* code, so the frame is kept as the bag of its rows
expand_db(acoes, d) ==
    [none |-> FALSE,
     columns |-> join_db(acoes, d).columns \cup {"escala_local"},
     rows |-> BagOf(expand_rows(acoes, d))]

\* ------------------------------------------------------------ summarizing
RECURSIVE SeqOf(_)
SeqOf(S) == IF S = {} THEN <<>> ELSE LET x == CHOOSE y \in S : TRUE IN <<x>> \o SeqOf(S \ {x})

RECURSIVE Sum(_)
Sum(ns) == IF Len(ns) = 0 THEN 0 ELSE Head(ns) + Sum(Tail(ns))

\* min() and max() skip NaN and give NaN for no value
Min(ns) == IF Len(ns) = 0 THEN NaNNum ELSE CHOOSE n \in Range(ns) : \A m \in Range(ns) : n <= m
Max(ns) == IF Len(ns) = 0 THEN NaNNum ELSE CHOOSE n \in Range(ns) : \A m \in Range(ns) : n >= m

\* a mean is kept as the fraction num/den in lowest terms; den = 0 is NaN
RECURSIVE GCD(_, _)
GCD(a, b) == IF b = 0 THEN a ELSE GCD(b, a % b)

Frac(num, den) ==
    IF den = 0 THEN [num |-> 0, den |-> 0]
    ELSE [num |-> num \div GCD(num, den), den |-> den \div GCD(num, den)]

RECURSIVE SumFrac(_)
SumFrac(fs) ==
    IF Len(fs) = 0 THEN Frac(0, 1)
    ELSE LET a == Head(fs)
             b == SumFrac(Tail(fs))
         IN  Frac(a.num * b.den + b.num * a.den, a.den * b.den)

MeanFrac(fs) ==
    IF Len(fs) = 0 THEN Frac(0, 0)
    ELSE Frac(SumFrac(fs).num, SumFrac(fs).den * Len(fs))

summarize_key(subset) == IF subset = "escala_acao" THEN "escala_local" ELSE subset

\* groupby(key)[valor_investimento].agg(mean, sum, min, max, count): a row
\* for each value of the key that is not null; the aggregates skip NaN
summarize_groups(rows, key) ==
    LET keys == {rows[i][key] : i \in 1..Len(rows)} \ {NoneOf(key), NaNOf(key)}
        valor(k) == LET q == SelectSeq(rows, LAMBDA r : r[key] = k)
                        v == [i \in 1..Len(q) |-> q[i]["valor_investimento"]]
                    IN  SelectSeq(v, LAMBDA x : ~IsNull("valor_investimento", x))
        group(k) == [c \in {key, "media", "soma", "min", "max", "contagem"} |->
                        CASE c = key -> k
                          [] c = "media" -> Frac(Sum(valor(k)), Len(valor(k)))
                          [] c = "soma" -> Sum(valor(k))
                          [] c = "min" -> Min(valor(k))
                          [] c = "max" -> Max(valor(k))
                          [] c = "contagem" -> Len(valor(k))]
    IN  SeqOf({group(k) : k \in keys})

\* the row of totals over the rows of the groups
summarize_totals(df_ups, key) ==
    LET col(c) == [i \in 1..Len(df_ups) |-> df_ups[i][c]]
        numbers(c) == SelectSeq(col(c), LAMBDA x : x # NaNNum)
    IN  [c \in {key, "media", "soma", "min", "max", "contagem"} |->
            CASE c = key -> "totais"
              [] c = "media" -> MeanFrac(SelectSeq(col("media"), LAMBDA f : f.den # 0))
              [] c = "soma" -> Sum(col("soma"))
              [] c = "min" -> Min(numbers("min"))
              [] c = "max" -> Max(numbers("max"))
              [] c = "contagem" -> Sum(col("contagem"))]

\* summarize(db, subset) on the expanded frame; the rows of the groups are
\* sorted by soma, which fixes no order for equal sums, so the result is
\* kept as the bag of its rows (the row of totals is the one keyed "totais")
summarize(acoes, d, subset) ==
    LET key == summarize_key(subset)
        groups == summarize_groups(expand_rows(acoes, d), key)
        cols == {key, "media", "soma", "min", "max", "contagem", "unidade"}
        unit(r) == [c \in cols |-> IF c = "unidade" THEN "Mi R$" ELSE r[c]]
        df_ups == Frame(cols, [i \in 1..(Len(groups) + 1) |->
                                  IF i <= Len(groups) THEN unit(groups[i])
                                  ELSE unit(summarize_totals(groups, key))])
        out == CASE subset = "cod_componente" ->
                       merge_left(df_ups, view_all(d.componentes), subset)
                 [] subset = "cod_subcomponente" ->
                       merge_left(df_ups, view_all(d.subcomponentes), subset)
                 [] OTHER -> df_ups
    IN  [none |-> FALSE, columns |-> out.columns, rows |-> BagOf(out.rows)]

\* ----------------------------------------------------------------- AcoesRT
cod_acao_set(df) == {df.rows[i]["cod_acao"] : i \in 1..Len(df.rows)}

\* df_q[RecId].values[0]: the first row that carries the code
first_rec_id(df, cod_acao) ==
    LET df_q == SelectSeq(df.rows, LAMBDA r : r["cod_acao"] = cod_acao)
    IN  df_q[1]["RecId"]

AcoesRT_insert_record(df, dict_rec, t) ==
    LET ins == RecordTable_insert_record("acoes", df, dict_rec, t)
    IN  IF ins.exc # "none" THEN ins ELSE refresh_data("acoes", ins.data)

\* AcoesRT.edit_record without the refresh of the derived column
AcoesRT_edit_record_stale(df, cod_acao, dict_rec, filter_dict, t) ==
    IF df.none THEN [data |-> df, exc |-> "TypeError", found |-> FALSE]
    ELSE IF "cod_acao" \notin df.columns THEN [data |-> df, exc |-> "KeyError", found |-> FALSE]
    ELSE IF cod_acao \notin cod_acao_set(df) THEN [data |-> df, exc |-> "none", found |-> FALSE]
    ELSE LET ed == RecordTable_edit_record("acoes", df, first_rec_id(df, cod_acao),
                                           dict_rec, filter_dict, t)
         IN  [data |-> ed.data, exc |-> ed.exc, found |-> TRUE]

\* found is FALSE when the code is in no row: a message is printed
AcoesRT_edit_record(df, cod_acao, dict_rec, filter_dict, t) ==
    IF df.none THEN [data |-> df, exc |-> "TypeError", found |-> FALSE]
    ELSE IF "cod_acao" \notin df.columns THEN [data |-> df, exc |-> "KeyError", found |-> FALSE]
    ELSE IF cod_acao \notin cod_acao_set(df) THEN [data |-> df, exc |-> "none", found |-> FALSE]
    ELSE LET ed == RecordTable_edit_record("acoes", df, first_rec_id(df, cod_acao),
                                           dict_rec, filter_dict, t)
             rf == refresh_data("acoes", ed.data)
         IN  IF ed.exc # "none" THEN [data |-> ed.data, exc |-> ed.exc, found |-> TRUE]
             ELSE [data |-> rf.data, exc |-> rf.exc, found |-> TRUE]

AcoesRT_archive_record(df, cod_acao, t) ==
    IF df.none THEN [data |-> df, exc |-> "TypeError", ret |-> "raised"]
    ELSE IF "cod_acao" \notin df.columns THEN [data |-> df, exc |-> "KeyError", ret |-> "raised"]
    ELSE IF cod_acao \notin cod_acao_set(df) THEN [data |-> df, exc |-> "none", ret |-> "False"]
    ELSE LET ed == AcoesRT_edit_record(df, cod_acao, [RecStatus |-> "Off"], FALSE, t)
             rf == refresh_data("acoes", ed.data)
         IN  IF ed.exc # "none" THEN [data |-> ed.data, exc |-> ed.exc, ret |-> "raised"]
             ELSE IF rf.exc # "none" THEN [data |-> rf.data, exc |-> rf.exc, ret |-> "raised"]
             ELSE [data |-> rf.data, exc |-> "none", ret |-> "True"]

\* input(...).lower().strip() on the answers of the model
Answers == {"s", " S ", "n", ""}

lower_strip(a) == IF a = " S " THEN "s" ELSE a

\* save() that keeps the stored rows the table does not hold
save_merging(df, fd, st) ==
    IF fd
    THEN [store |-> IF st.none THEN df
                    ELSE Frame(df.columns \cup st.columns,
                               df.rows \o SelectSeq(st.rows, LAMBDA r : r \notin Range(df.rows))),
          ret |-> "True"]
    ELSE [store |-> st, ret |-> "False"]

\* save(): the layer is overwritten when a file is set
save(df, fd, st) == IF fd THEN [store |-> df, ret |-> "True"] ELSE [store |-> st, ret |-> "False"]

\* AcoesRT.insert without the test for None
AcoesRT_insert_unchecked(df, fd, st, dc_acao, answer, t) ==
    IF lower_strip(answer) = "s"
    THEN LET ins == AcoesRT_insert_record(df, dc_acao, t)
         IN  IF ins.exc # "none"
             THEN [data |-> ins.data, store |-> st, exc |-> ins.exc, ret |-> "raised"]
             ELSE [data |-> ins.data, store |-> save(ins.data, fd, st).store,
                   exc |-> "none", ret |-> "True"]
    ELSE [data |-> df, store |-> st, exc |-> "none", ret |-> "False"]

\* AcoesRT.insert: a None value under any key cancels before the prompt
AcoesRT_insert(df, fd, st, dc_acao, answer, t) ==
    IF \E k \in DOMAIN dc_acao : is_None(k, dc_acao[k])
    THEN [data |-> df, store |-> st, exc |-> "none", ret |-> "False"]
    ELSE IF lower_strip(answer) = "s"
    THEN LET ins == AcoesRT_insert_record(df, dc_acao, t)
         IN  IF ins.exc # "none"
             THEN [data |-> ins.data, store |-> st, exc |-> ins.exc, ret |-> "raised"]
             ELSE [data |-> ins.data, store |-> save(ins.data, fd, st).store,
                   exc |-> "none", ret |-> "True"]
    ELSE [data |-> df, store |-> st, exc |-> "none", ret |-> "False"]

\* view_acao(cod_acao): the first row that carries the code; values[0] of
\* an empty selection raises IndexError
view_acao_exc(df, cod_acao) ==
    IF df.none THEN "AttributeError"
    ELSE IF "cod_acao" \notin df.columns \/ cod_acao \notin cod_acao_set(df) THEN "IndexError"
    ELSE "none"

view_acao(df, cod_acao) ==
    LET df_q == SelectSeq(df.rows, LAMBDA r : r["cod_acao"] = cod_acao)
    IN  df_q[1]

\* AcoesRT.edit: the code is looked up, the old values of the keys of the
\* change set are read (KeyError for a key that is no column), the answer
\* is asked; on "s" the record is edited without filter, the codes are
\* recomputed, the layer is saved and the record is looked up again by the
\* code the caller gave
AcoesRT_edit(df, fd, st, cod_acao, dc_acao, answer, t) ==
    IF df.none THEN [data |-> df, store |-> st, exc |-> "TypeError", ret |-> "raised"]
    ELSE IF "cod_acao" \notin df.columns
    THEN [data |-> df, store |-> st, exc |-> "KeyError", ret |-> "raised"]
    ELSE IF cod_acao \notin cod_acao_set(df)
    THEN [data |-> df, store |-> st, exc |-> "none", ret |-> "False"]
    ELSE IF \E k \in DOMAIN dc_acao : k \notin df.columns
    THEN [data |-> df, store |-> st, exc |-> "KeyError", ret |-> "raised"]
    ELSE IF lower_strip(answer) = "s"
    THEN LET ed == AcoesRT_edit_record(df, cod_acao, dc_acao, FALSE, t)
             rf == refresh_data("acoes", ed.data)
             sv == save(rf.data, fd, st)
         IN  IF ed.exc # "none"
             THEN [data |-> ed.data, store |-> st, exc |-> ed.exc, ret |-> "raised"]
             ELSE IF rf.exc # "none"
             THEN [data |-> rf.data, store |-> st, exc |-> rf.exc, ret |-> "raised"]
             ELSE IF view_acao_exc(rf.data, cod_acao) # "none"
             THEN [data |-> rf.data, store |-> sv.store,
                   exc |-> view_acao_exc(rf.data, cod_acao), ret |-> "raised"]
             ELSE [data |-> rf.data, store |-> sv.store, exc |-> "none", ret |-> "True"]
    ELSE [data |-> df, store |-> st, exc |-> "none", ret |-> "False"]

\* AcoesRT.remove that archives and saves whatever the answer
AcoesRT_remove_unasked(df, fd, st, cod_acao, answer, t) ==
    IF df.none THEN [data |-> df, store |-> st, exc |-> "TypeError", ret |-> "raised"]
    ELSE IF "cod_acao" \notin df.columns
    THEN [data |-> df, store |-> st, exc |-> "KeyError", ret |-> "raised"]
    ELSE IF cod_acao \notin cod_acao_set(df)
    THEN [data |-> df, store |-> st, exc |-> "none", ret |-> "False"]
    ELSE LET ed == AcoesRT_edit_record(df, cod_acao, [RecStatus |-> "Off"], FALSE, t)
             rf == refresh_data("acoes", ed.data)
         IN  [data |-> rf.data, store |-> save(rf.data, fd, st).store,
              exc |-> "none", ret |-> "True"]

\* AcoesRT.remove: as edit, with the change set {RecStatus: "Off"} and no
\* second look-up
AcoesRT_remove(df, fd, st, cod_acao, answer, t) ==
    IF df.none THEN [data |-> df, store |-> st, exc |-> "TypeError", ret |-> "raised"]
    ELSE IF "cod_acao" \notin df.columns
    THEN [data |-> df, store |-> st, exc |-> "KeyError", ret |-> "raised"]
    ELSE IF cod_acao \notin cod_acao_set(df)
    THEN [data |-> df, store |-> st, exc |-> "none", ret |-> "False"]
    ELSE IF lower_strip(answer) = "s"
    THEN LET ed == AcoesRT_edit_record(df, cod_acao, [RecStatus |-> "Off"], FALSE, t)
             rf == refresh_data("acoes", ed.data)
             sv == save(rf.data, fd, st)
         IN  IF ed.exc # "none"
             THEN [data |-> ed.data, store |-> st, exc |-> ed.exc, ret |-> "raised"]
             ELSE IF rf.exc # "none"
             THEN [data |-> rf.data, store |-> st, exc |-> rf.exc, ret |-> "raised"]
             ELSE [data |-> rf.data, store |-> sv.store, exc |-> "none", ret |-> "True"]
    ELSE [data |-> df, store |-> st, exc |-> "none", ret |-> "False"]

\* ------------------------------------------------------------------ loading
\* drop_duplicates(subset=RecId): the first row of each RecId is kept
drop_duplicates(rows) ==
    LET keep == {i \in 1..Len(rows) : \A j \in 1..(i - 1) : rows[j]["RecId"] # rows[i]["RecId"]}
        F[i \in 0..Len(rows)] ==
            IF i = 0 THEN <<>>
            ELSE IF i \in keep THEN Append(F[i - 1], rows[i]) ELSE F[i - 1]
    IN  F[Len(rows)]

\* set_data(input_df, append=True, inplace=True); exc is the IndexError of
\* _last_id_int when ids are enforced over a frame with no rows
set_data(c, df, input_df, t) ==
    LET has(k) == k \in input_df.columns
        raises == ~has("RecId") /\ _last_id_int_raises(df)
        n_incr == _last_id_int(df) + 1
        rows0 == IF has("RecId") THEN drop_duplicates(input_df.rows) ELSE input_df.rows
        org == Range(_get_organized_columns(c))
        cell(i, k) ==
            CASE k = "RecTable" -> c
              [] k = "RecId" /\ ~has(k) -> zfill(str((i - 1) + n_incr), id_size)
              [] k = "RecTimestamp" /\ ~has(k) -> t
              [] k = "RecStatus" /\ ~has(k) -> "On"
              [] OTHER -> IF has(k) THEN rows0[i][k] ELSE ""
        merged == [i \in 1..Len(rows0) |-> [k \in org |-> cell(i, k)]]
        cols == IF df.none THEN org ELSE df.columns \cup org
        ext(r) == [k \in cols |-> IF k \in DOMAIN r THEN r[k] ELSE NaNOf(k)]
    IN  IF raises THEN [data |-> df, exc |-> "IndexError"]
        ELSE IF df.none THEN [data |-> Frame(org, merged), exc |-> "none"]
        ELSE [data |-> Frame(cols, [i \in 1..Len(df.rows) |-> ext(df.rows[i])]
                                   \o [i \in 1..Len(merged) |-> ext(merged[i])]),
              exc |-> "none"]

\* ------------------------------------------------------------------- inputs
FullSubc(sub, desc) ==
    [cod_subcomponente |-> sub, desc_subcomponente |-> desc, cod_componente |-> "comp 1"]

FullAcao(sub, desc) ==
    [cod_componente |-> "comp 1", cod_subcomponente |-> sub, nm_tematica |-> "tema",
     cod_acao |-> "novo", desc_acao |-> desc, valor_investimento |-> 1,
     origem_investimento |-> "origem", escala_acao |-> "MA"]

Without(d, k) == [x \in (DOMAIN d) \ {k} |-> d[x]]
With(d, k, v) == [x \in (DOMAIN d) \cup {k} |-> IF x = k THEN v ELSE d[x]]

\* a caller's dictionary that also names the bookkeeping fields and a key
\* outside the schema
Bookkeeping(d) ==
    With(With(With(With(With(d, "RecId", <<0, 0, 0, 1>>), "RecStatus", "Off"), "obs", "x"),
              "RecTable", "x"), "RecTimestamp", 7)

InsertDicts(c) ==
    IF c = "acoes"
    THEN {FullAcao(sub, "d") : sub \in Subs} \cup {Bookkeeping(FullAcao("sub 2", "d"))}
    ELSE {FullSubc(sub, "d") : sub \in Subs} \cup {Bookkeeping(FullSubc("sub 2", "d"))}

\* the dictionaries of the file-backed session: also one with None under
\* each column and one that lacks the sub-component
NullDicts == {With(FullAcao("sub 1", "d"), k, NoneOf(k)) : k \in Range(AcoesRT_columns_data)}

InteractiveDicts ==
    {FullAcao("sub 1", "d"), Without(FullAcao("sub 1", "d"), "cod_subcomponente")}
    \cup NullDicts

\* the calls of edit_record: <<dict_rec, filter_dict>>
EditCalls(c) ==
    IF c = "acoes"
    THEN {<<[cod_subcomponente |-> "sub 2", obs |-> "x"], TRUE>>,
          <<[cod_acao |-> "novo", desc_acao |-> "e"], TRUE>>,
          <<[RecStatus |-> "Off"], TRUE>>,
          <<[RecStatus |-> "On"], TRUE>>,
          <<[RecStatus |-> "Off"], FALSE>>,
          <<[RecStatus |-> "On", RecTimestamp |-> 0], FALSE>>}
    ELSE {<<[cod_subcomponente |-> "sub 2", obs |-> "x"], TRUE>>,
          <<[RecStatus |-> "Off"], TRUE>>,
          <<[RecStatus |-> "On"], TRUE>>,
          <<[RecStatus |-> "Off"], FALSE>>,
          <<[RecStatus |-> "On", RecTimestamp |-> 0], FALSE>>}

\* the change sets of the interactive edit: a field, the sub-component, the
\* status, and a key that is no column of the table
InteractiveEdits ==
    {[desc_acao |-> "e"], [cod_subcomponente |-> "sub 2"], [RecStatus |-> "Off"],
     [obs |-> "x"]}

AbsentRecId == <<0, 0, 5, 0>>
RecIdArgs(df) == RecIds(df) \cup {AbsentRecId}

AbsentCod == "acao 9.9"
CodArgs(df) ==
    (IF "cod_acao" \in df.columns THEN cod_acao_set(df) \ {None_, NaN_} ELSE {})
    \cup {AbsentCod}

Recents == {0 - 1, 0, 1, MaxRowsLong}

\* the layers the file can hold when the session starts
StoredRow(c, n, sub, status) ==
    LET d == IF c = "acoes" THEN FullAcao(sub, "d") ELSE FullSubc(sub, "d")
    IN  [k \in Range(_get_organized_columns(c)) |->
            CASE k = "RecId" -> zfill(str(n), id_size)
              [] k = "RecTable" -> c
              [] k = "RecTimestamp" -> 0
              [] k = "RecStatus" -> status
              [] OTHER -> d[k]]

Layer(c, rows) == refresh_data(c, Frame(Range(_get_organized_columns(c)), rows)).data

InitStores(c) ==
    {Layer(c, <<>>),
     Layer(c, <<StoredRow(c, 1, "sub 1", "On"), StoredRow(c, 2, "sub 1", "On")>>),
     Layer(c, <<StoredRow(c, 9999, "sub 1", "On")>>)}

\* the other tables of a loaded database: rows the record operations of
\* their tables can leave
DbRow(c, n, status, d) ==
    [k \in Range(_get_organized_columns(c)) |->
        CASE k = "RecId" -> zfill(str(n), id_size)
          [] k = "RecTable" -> c
          [] k = "RecTimestamp" -> 0
          [] k = "RecStatus" -> status
          [] OTHER -> d[k]]

DbTable(c, rows) == Frame(Range(_get_organized_columns(c)), rows)

CompRow(n, status) ==
    DbRow("componentes", n, status,
          [cod_componente |-> "comp 1", nm_componente |-> "nome", desc_componente |-> "c"])

SubcRow(n, sub, status) == DbRow("subcomponentes", n, status, FullSubc(sub, "s"))

EscalaRow(n, s_escala, s_cat, status) ==
    DbRow("escala", n, status, [escala_acao |-> s_escala, categoria |-> s_cat])

SubcTables ==
    {DbTable("subcomponentes", <<SubcRow(1, "sub 1", "On"), SubcRow(2, "sub 2", "Off")>>),
     DbTable("subcomponentes", <<SubcRow(1, "sub 1", "Off"), SubcRow(2, "sub 1", "On"),
                                 SubcRow(3, "sub 1", "On")>>)}

EscalaTables ==
    {DbTable("escala", <<EscalaRow(1, "MA", "UF", "On")>>),
     DbTable("escala", <<EscalaRow(1, Wildcard, "UF", "On"), EscalaRow(2, "MA", "UF", "On")>>),
     DbTable("escala", <<EscalaRow(1, Wildcard, "UF", "Off"), EscalaRow(2, Wildcard, "UF", "On")>>),
     DbTable("escala", <<EscalaRow(1, "Nordeste", "Regiao", "On")>>),
     DbTable("escala", <<>>)}

Dbs ==
    {[subcomponentes |-> sc, componentes |-> DbTable("componentes", <<CompRow(1, "On")>>),
      escala |-> es] : sc \in SubcTables, es \in EscalaTables}
    \cup {[subcomponentes |-> sc, componentes |-> DbTable("componentes", <<CompRow(1, "Off")>>),
           escala |-> DbTable("escala", <<EscalaRow(1, "MA", "UF", "On")>>)] :
             sc \in SubcTables}

\* the actions of the database: of one state, of every state, of a region
DbDicts ==
    {[FullAcao("sub 1", "d") EXCEPT !.escala_acao = "MA"],
     [FullAcao("sub 1", "d") EXCEPT !.escala_acao = Wildcard, !.valor_investimento = 2],
     [FullAcao("sub 2", "d") EXCEPT !.escala_acao = "Nordeste"]}

Subsets == {"cod_componente", "cod_subcomponente", "escala_acao"}

\* -------------------------------------------------------------- the machine
\* the latest call: its name, the exception it ended in, what it returned
\* and, in pre, what it was given: the RecStatus of the record its key named
\* ("absent" when the key named none), "null" for a dictionary with a None
\* value, "-" otherwise
Did(op, exc, ret, pre) == last' = [op |-> op, exc |-> exc, ret |-> ret, pre |-> pre]

status_of(df, rec_id) ==
    IF df.none \/ rec_id \notin RecIds(df) THEN "absent"
    ELSE LET i == CHOOSE j \in 1..Len(df.rows) : df.rows[j]["RecId"] = rec_id
         IN  df.rows[i]["RecStatus"]

status_of_cod(df, cod_acao) ==
    IF df.none \/ "cod_acao" \notin df.columns THEN "absent"
    ELSE IF cod_acao \notin cod_acao_set(df) THEN "absent"
    ELSE status_of(df, first_rec_id(df, cod_acao))

has_None(d) == IF \E k \in DOMAIN d : is_None(k, d[k]) THEN "null" ELSE "-"

\* the table object of a session that has loaded nothing yet
NoSession ==
    [data |-> NoData, file_data |-> FALSE,
     last |-> [op |-> "init", exc |-> "none", ret |-> "None", pre |-> "-"]]

\* get_tables(): the other tables of the database, with no data yet
NoDb == [subcomponentes |-> NoData, componentes |-> NoData, escala |-> NoData]

Init ==
    /\ other = NoSession
    /\ db = NoDb
    /\ cls \in {"subcomponentes", "acoes"}
    /\ data = NoData
    /\ store \in InitStores(cls)
    /\ file_data = FALSE
    /\ now = 0
    /\ last = [op |-> "init", exc |-> "none", ret |-> "None", pre |-> "-"]
    /\ view_out = NoData

Tick ==
    /\ now < MaxTime
    /\ now' = now + 1
    /\ UNCHANGED <<cls, data, store, file_data, last, view_out, elsewhere>>

\* gpd.read_file raises when the file has no such layer; file_data is set
\* before the read
load_data(max) ==
    /\ Len(data.rows) + Len(store.rows) <= max
    /\ LET r == IF store.none THEN [data |-> data, exc |-> "DataSourceError"]
                ELSE set_data(cls, data, store, now)
       IN  /\ data' = r.data
           /\ Did("load_data", r.exc, IF r.exc = "none" THEN "None" ELSE "raised", "-")
    /\ file_data' = TRUE
    /\ view_out' = NoData
    /\ UNCHANGED <<cls, store, now, elsewhere>>

save_data ==
    /\ LET r == save(data, file_data, store)
       IN  /\ store' = r.store
           /\ Did("save", "none", r.ret, "-")
    /\ view_out' = NoData
    /\ UNCHANGED <<cls, data, file_data, now, elsewhere>>

Outcome(op, r, pre) ==
    /\ data' = r.data
    /\ Did(op, r.exc, IF r.exc = "none" THEN "None" ELSE "raised", pre)
    /\ view_out' = NoData
    /\ UNCHANGED <<cls, store, file_data, now, elsewhere>>

insert_record(dict_rec, max) ==
    /\ cls # "acoes"
    /\ Len(data.rows) < max
    /\ Outcome("insert_record", RecordTable_insert_record(cls, data, dict_rec, now),
               has_None(dict_rec))

edit_record(rec_id, dict_rec, filter_dict) ==
    /\ cls # "acoes"
    /\ Outcome("edit_record",
               RecordTable_edit_record(cls, data, rec_id, dict_rec, filter_dict, now),
               status_of(data, rec_id))

archive_record(rec_id) ==
    /\ cls # "acoes"
    /\ Outcome("archive_record", RecordTable_archive_record(cls, data, rec_id, now),
               status_of(data, rec_id))

acoes_insert_record(dict_rec, max) ==
    /\ cls = "acoes"
    /\ Len(data.rows) < max
    /\ Outcome("insert_record", AcoesRT_insert_record(data, dict_rec, now), has_None(dict_rec))

acoes_edit_record(cod_acao, dict_rec, filter_dict) ==
    /\ cls = "acoes"
    /\ LET r == AcoesRT_edit_record(data, cod_acao, dict_rec, filter_dict, now)
       IN  /\ data' = r.data
           /\ Did("edit_record", r.exc,
                  IF r.exc # "none" THEN "raised" ELSE IF r.found THEN "None" ELSE "None, message",
                  status_of_cod(data, cod_acao))
    /\ view_out' = NoData
    /\ UNCHANGED <<cls, store, file_data, now, elsewhere>>

acoes_archive_record(cod_acao) ==
    /\ cls = "acoes"
    /\ LET r == AcoesRT_archive_record(data, cod_acao, now)
       IN  /\ data' = r.data
           /\ Did("archive_record", r.exc, r.ret, status_of_cod(data, cod_acao))
    /\ view_out' = NoData
    /\ UNCHANGED <<cls, store, file_data, now, elsewhere>>

acoes_insert(dc_acao, answer) ==
    /\ cls = "acoes"
    /\ LET r == AcoesRT_insert(data, file_data, store, dc_acao, answer, now)
       IN  /\ Len(r.data.rows) <= MaxStoreRows
           /\ data' = r.data
           /\ store' = r.store
           /\ Did("insert", r.exc, r.ret, has_None(dc_acao))
    /\ view_out' = NoData
    /\ UNCHANGED <<cls, file_data, now, elsewhere>>

\* pre of the interactive calls: the status of the record the code names,
\* then the answer as the flow reads it
acoes_edit(cod_acao, dc_acao, answer) ==
    /\ cls = "acoes"
    /\ LET r == AcoesRT_edit(data, file_data, store, cod_acao, dc_acao, answer, now)
       IN  /\ data' = r.data
           /\ store' = r.store
           /\ Did("edit", r.exc, r.ret, status_of_cod(data, cod_acao))
    /\ view_out' = NoData
    /\ UNCHANGED <<cls, file_data, now, elsewhere>>

acoes_remove(cod_acao, answer) ==
    /\ cls = "acoes"
    /\ LET r == AcoesRT_remove(data, file_data, store, cod_acao, answer, now)
       IN  /\ data' = r.data
           /\ store' = r.store
           /\ Did("remove", r.exc, r.ret, status_of_cod(data, cod_acao))
    /\ view_out' = NoData
    /\ UNCHANGED <<cls, file_data, now, elsewhere>>

get_record_data(rec_id) ==
    /\ LET exc == get_record_exc(data, rec_id)
       IN  /\ view_out' = IF exc = "none" THEN get_record(data, rec_id) ELSE NoData
           /\ Did("get_record", exc, IF exc = "none" THEN "dict" ELSE "raised",
                  status_of(data, rec_id))
    /\ UNCHANGED <<cls, data, store, file_data, now, elsewhere>>

acoes_view_acao(cod_acao) ==
    /\ cls = "acoes"
    /\ LET exc == view_acao_exc(data, cod_acao)
       IN  /\ view_out' = IF exc = "none"
                          THEN Frame(data.columns, <<view_acao(data, cod_acao)>>)
                          ELSE NoData
           /\ Did("view_acao", exc, IF exc = "none" THEN "frame" ELSE "raised",
                  status_of_cod(data, cod_acao))
    /\ UNCHANGED <<cls, data, store, file_data, now, elsewhere>>

join_data ==
    /\ cls = "acoes"
    /\ LET exc == join_db_exc(data, db)
       IN  /\ Did("join_db", exc, IF exc = "none" THEN "frame" ELSE "raised", "-")
           /\ view_out' = IF exc = "none" THEN join_db(data, db) ELSE NoData
    /\ UNCHANGED <<cls, data, store, file_data, now, elsewhere>>

expand_data ==
    /\ cls = "acoes"
    /\ LET exc == expand_db_exc(data, db)
       IN  /\ Did("expand_db", exc, IF exc = "none" THEN "frame" ELSE "raised", "-")
           /\ view_out' = IF exc = "none" THEN expand_db(data, db) ELSE NoData
    /\ UNCHANGED <<cls, data, store, file_data, now, elsewhere>>

\* pre is the grouping key
summarize_data(subset) ==
    /\ cls = "acoes"
    /\ LET exc == expand_db_exc(data, db)
       IN  /\ Did("summarize", exc, IF exc = "none" THEN "frame" ELSE "raised", subset)
           /\ view_out' = IF exc = "none" THEN summarize(data, db, subset) ELSE NoData
    /\ UNCHANGED <<cls, data, store, file_data, now, elsewhere>>

\* pre is "unfiltered" for a call with filter_status=False
view_data(filter_status, recent) ==
    /\ IF data.none
       THEN /\ view_out' = NoData
            /\ Did("view", "AttributeError", "raised", "-")
       ELSE /\ view_out' \in view_filter(data, filter_status, recent)
            /\ Did(IF recent = 0 - 1 THEN "view" ELSE "view_recent", "none", "frame",
                   IF filter_status THEN "-" ELSE "unfiltered")
    /\ UNCHANGED <<cls, data, store, file_data, now, elsewhere>>

Next ==
    \/ Tick
    \/ load_data(MaxRows)
    \/ \E d \in InsertDicts(cls) : insert_record(d, MaxRows)
    \/ \E id \in RecIdArgs(data), e \in EditCalls(cls) : edit_record(id, e[1], e[2])
    \/ \E id \in RecIdArgs(data) : archive_record(id)
    \/ \E d \in InsertDicts(cls) : acoes_insert_record(d, MaxRows)
    \/ \E cod \in CodArgs(data), e \in EditCalls(cls) : acoes_edit_record(cod, e[1], e[2])
    \/ \E cod \in CodArgs(data) : acoes_archive_record(cod)

Spec == Init /\ [][Next]_vars

\* the sequence of record ids: loading, inserting and archiving only, on
\* longer tables
NextIds ==
    \/ load_data(MaxRowsLong)
    \/ \E d \in InsertDicts(cls) : insert_record(d, MaxRowsLong)
    \/ \E id \in RecIdArgs(data) : archive_record(id)
    \/ \E d \in InsertDicts(cls) : acoes_insert_record(d, MaxRowsLong)
    \/ \E cod \in CodArgs(data) :
          acoes_edit_record(cod, [cod_subcomponente |-> "sub 2", obs |-> "x"], TRUE)
    \/ \E cod \in CodArgs(data) : acoes_archive_record(cod)

SpecIds == Init /\ [][NextIds]_vars

\* reading the table: loading, inserting and archiving as time passes, and view
NextView ==
    \/ Tick
    \/ load_data(MaxRowsLong)
    \/ \E d \in {FullSubc("sub 1", "d")} : insert_record(d, MaxRowsLong)
    \/ \E id \in RecIds(data) : archive_record(id)
    \/ \E d \in {FullAcao("sub 1", "d")} : acoes_insert_record(d, MaxRowsLong)
    \/ \E cod \in CodArgs(data) : acoes_archive_record(cod)
    \/ \E fs \in BOOLEAN, n \in Recents : view_data(fs, n)

SpecView == Init /\ [][NextView]_vars

\* looking records up: the file may also lack the layer, and the keys may
\* name no record
NoLayer == NoData

InitLookup ==
    /\ other = NoSession
    /\ db = NoDb
    /\ cls \in {"subcomponentes", "acoes"}
    /\ data = NoData
    /\ store \in InitStores(cls) \cup {NoLayer}
    /\ file_data = FALSE
    /\ now = 0
    /\ last = [op |-> "init", exc |-> "none", ret |-> "None", pre |-> "-"]
    /\ view_out = NoData

NextLookup ==
    \/ load_data(MaxRows)
    \/ \E d \in {FullSubc("sub 1", "d")} : insert_record(d, MaxRows)
    \/ \E id \in RecIdArgs(data) : edit_record(id, [desc_subcomponente |-> "e"], TRUE)
    \/ \E id \in RecIdArgs(data) : archive_record(id)
    \/ \E d \in {FullAcao("sub 1", "d")} : acoes_insert_record(d, MaxRows)
    \/ \E cod \in CodArgs(data) : acoes_edit_record(cod, [desc_acao |-> "e"], TRUE)
    \/ \E cod \in CodArgs(data) : acoes_archive_record(cod)
    \/ \E id \in RecIdArgs(data) : get_record_data(id)
    \/ \E cod \in CodArgs(data) : acoes_view_acao(cod)

SpecLookup == InitLookup /\ [][NextLookup]_vars

\* two sessions on one file: each has its own table object; the calls act
\* on the table of the session that is running, and the other one waits
Switch ==
    /\ data' = other.data
    /\ file_data' = other.file_data
    /\ last' = other.last
    /\ other' = [data |-> data, file_data |-> file_data, last |-> last]
    /\ UNCHANGED <<cls, store, now, view_out, db>>

InitTwo == Init /\ cls = "subcomponentes"

NextTwo ==
    \/ Switch
    \/ load_data(MaxRowsLong)
    \/ \E d \in {FullSubc(sub, "d") : sub \in Subs} : insert_record(d, MaxRowsLong)
    \/ save_data

SpecTwo == InitTwo /\ [][NextTwo]_vars

\* the database: the actions table changes, the other tables are as loaded
InitDb ==
    /\ other = NoSession
    /\ db \in Dbs
    /\ cls = "acoes"
    /\ data = NoData
    /\ store = Layer("acoes", <<>>)
    /\ file_data = FALSE
    /\ now = 0
    /\ last = [op |-> "init", exc |-> "none", ret |-> "None", pre |-> "-"]
    /\ view_out = NoData

NextDb ==
    \/ \E d \in DbDicts : acoes_insert_record(d, MaxRows)
    \/ \E cod \in CodArgs(data) \ {AbsentCod} : acoes_archive_record(cod)
    \/ join_data
    \/ expand_data
    \/ \E subset \in Subsets : summarize_data(subset)

SpecDb == InitDb /\ [][NextDb]_vars

\* the actions table with its file: the interactive insert and save
InitStore == Init /\ cls = "acoes"

NextStore ==
    \/ load_data(MaxStoreRows)
    \/ save_data
    \/ \E d \in {With(FullAcao("sub 1", "d"), "desc_acao", None_)} :
          acoes_insert_record(d, MaxStoreRows)
    \/ \E d \in InteractiveDicts, a \in Answers : acoes_insert(d, a)
    \/ \E cod \in CodArgs(data), d \in InteractiveEdits, a \in Answers : acoes_edit(cod, d, a)
    \/ \E cod \in CodArgs(data), a \in Answers : acoes_remove(cod, a)

SpecStore == InitStore /\ [][NextStore]_vars

\* the codes of the actions table on tables long enough for the groups to
\* interleave twice: inserting, archiving, and an edit that names cod_acao
InitCodes == Init /\ cls = "acoes" /\ store = Layer("acoes", <<>>)

NextCodes ==
    \/ \E sub \in Subs : acoes_insert_record(FullAcao(sub, "d"), MaxRowsCodes)
    \/ \E cod \in CodArgs(data) \ {AbsentCod} : acoes_archive_record(cod)
    \/ \E cod \in CodArgs(data) : acoes_edit_record(cod, [cod_acao |-> "novo"], TRUE)

SpecCodes == InitCodes /\ [][NextCodes]_vars

\* the scale of an action against the states of the scale table: labels of
\* one state, of two states, and of a region whose name holds state codes
ScaleLabels == {"MA", "MA, PI", "MATOPIBA"}

ScaleDicts == {[FullAcao("sub 1", "d") EXCEPT !.escala_acao = l] : l \in ScaleLabels}

ScaleDbs ==
    {[subcomponentes |-> DbTable("subcomponentes", <<SubcRow(1, "sub 1", "On")>>),
      componentes |-> DbTable("componentes", <<CompRow(1, "On")>>),
      escala |-> es] :
        es \in {DbTable("escala", <<EscalaRow(1, "MA", "UF", "On")>>),
                DbTable("escala", <<EscalaRow(1, "PI", "UF", "On"),
                                    EscalaRow(2, "BA", "UF", "On")>>)}}

InitScale ==
    /\ other = NoSession
    /\ db \in ScaleDbs
    /\ cls = "acoes"
    /\ data = NoData
    /\ store = Layer("acoes", <<>>)
    /\ file_data = FALSE
    /\ now = 0
    /\ last = [op |-> "init", exc |-> "none", ret |-> "None", pre |-> "-"]
    /\ view_out = NoData

NextScale ==
    \/ \E d \in ScaleDicts : acoes_insert_record(d, MaxRows)
    \/ \E cod \in CodArgs(data) \ {AbsentCod} : acoes_archive_record(cod)
    \/ expand_data

SpecScale == InitScale /\ [][NextScale]_vars

\* ------------------------------------------------------ steps of the claims
AnyRows == MaxRows + MaxRowsLong + MaxRowsCodes

\* the step is a call of insert_record, of either class, with dictionary d
insert_step(d) == insert_record(d, AnyRows) \/ acoes_insert_record(d, AnyRows)

InsertStep == \E d \in InsertDicts(cls) : insert_step(d)

EditStep ==
    \/ \E id \in RecIdArgs(data), e \in EditCalls(cls) : edit_record(id, e[1], e[2])
    \/ \E cod \in CodArgs(data), e \in EditCalls(cls) : acoes_edit_record(cod, e[1], e[2])

ArchiveStep ==
    \/ \E id \in RecIdArgs(data) : archive_record(id)
    \/ \E cod \in CodArgs(data) : acoes_archive_record(cod)

Unique(df) ==
    \A i, j \in 1..Len(df.rows) : i # j => df.rows[i]["RecId"] # df.rows[j]["RecId"]

LastRow(df) == df.rows[Len(df.rows)]

\* the numerically largest suffix of the RecIds of a frame with rows
MaxSuffix(df) ==
    LET ns == {int(r) : r \in RecIds(df)}
    IN  CHOOSE n \in ns : \A m \in ns : m <= n

HasRows(df) == ~df.none /\ Len(df.rows) > 0

\* ---------------------------------------------------------------- claims
\* C1: after insert, edit and archive operations no two rows carry the same
\* RecId, and every insert assigns a RecId whose numeric suffix is strictly
\* greater than the suffix of every RecId already in the table.
C1_UniqueIncreasingRecIds ==
    [][/\ (InsertStep \/ EditStep \/ ArchiveStep) /\ Unique(data) => Unique(data')
       /\ InsertStep /\ last'.exc = "none" =>
             \A r \in RecIds(data) : int(LastRow(data')["RecId"]) > int(r)]_vars

\* C2: _next_recid returns the numerically largest suffix of the table plus
\* one, zero-padded to id_size digits, also when a suffix has more digits
\* than id_size.
C2_NextRecIdIsNumericMaxPlusOne ==
    HasRows(data) => _next_recid(data) = zfill(str(MaxSuffix(data) + 1), id_size)

\* C3: on an empty table (no data yet, or a loaded table with no rows) the
\* last sequence number is 0, the next id is Rec0001 and the first insert
\* succeeds and creates Rec0001.
C3_EmptyTableStartsAtRec0001 ==
    [][Len(data.rows) = 0 =>
          /\ ~_last_id_int_raises(data)
          /\ _last_id_int(data) = 0
          /\ _next_recid(data) = <<0, 0, 0, 1>>
          /\ InsertStep => /\ last'.exc = "none"
                           /\ Len(data'.rows) = 1
                           /\ data'.rows[1]["RecId"] = <<0, 0, 0, 1>>]_vars

\* the columns an operator recomputes
Derived(c) == IF c = "acoes" THEN {"cod_acao"} ELSE {}

Rows(df) == 1..Len(df.rows)

\* the record the call names: the RecId itself, or the first row of the code
Named(id) == {i \in Rows(data) : data.rows[i]["RecId"] = id}

SameRecIds == 
    /\ Len(data'.rows) = Len(data.rows)
    /\ \A i \in Rows(data) : data'.rows[i]["RecId"] = data.rows[i]["RecId"]

\* C4: archiving an existing record keeps the row count and the row, sets
\* its RecStatus to Off, and view() afterwards does not select it.
ArchiveKeeps(id) ==
    /\ last'.exc = "none"
    /\ SameRecIds
    /\ Named(id) # {}
    /\ \A i \in Named(id) : data'.rows[i]["RecStatus"] = "Off"
    /\ \A p \in view_rows(data', 0 - 1) : Range(p) \cap Named(id) = {}

C4_ArchiveKeepsTheRow ==
    [][/\ \A id \in RecIds(data) : archive_record(id) => ArchiveKeeps(id)
       /\ \A cod \in CodArgs(data) \ {AbsentCod} :
             acoes_archive_record(cod) => ArchiveKeeps(first_rec_id(data, cod))]_vars

C4_Witness ==
    /\ last.op = "archive_record" /\ last.exc = "none" /\ last.pre = "On"
    /\ Len(data.rows) = 2
    /\ \E i, j \in Rows(data) : data.rows[i]["RecStatus"] = "Off" /\ data.rows[j]["RecStatus"] = "On"

\* C5 as claimed: archiving a record that is already archived raises no
\* error and leaves the table as it was.
Archived(id) == \A i \in Named(id) : data.rows[i]["RecStatus"] = "Off"

C5_ArchiveIsANoOp ==
    [][/\ \A id \in RecIds(data) :
             archive_record(id) /\ Archived(id) => last'.exc = "none" /\ data' = data
       /\ \A cod \in CodArgs(data) \ {AbsentCod} :
             acoes_archive_record(cod) /\ Archived(first_rec_id(data, cod)) =>
                last'.exc = "none" /\ data' = data]_vars

\* C5 as amended: archiving a record that is already archived raises no
\* error and changes nothing but that record's RecTimestamp, which becomes
\* the time of the call, and the recomputed derived column.
RearchiveTouchesTimestamp(id) ==
    /\ last'.exc = "none"
    /\ SameRecIds
    /\ data'.columns = data.columns
    /\ \A i \in Rows(data) : \A k \in data.columns \ Derived(cls) :
          data'.rows[i][k] = IF i \in Named(id) /\ k = "RecTimestamp" THEN now
                             ELSE data.rows[i][k]

C5_RearchiveTouchesOnlyTimestamp ==
    [][/\ \A id \in RecIds(data) :
             archive_record(id) /\ Archived(id) => RearchiveTouchesTimestamp(id)
       /\ \A cod \in CodArgs(data) \ {AbsentCod} :
             acoes_archive_record(cod) /\ Archived(first_rec_id(data, cod)) =>
                RearchiveTouchesTimestamp(first_rec_id(data, cod))]_vars

C5_Witness ==
    /\ last.op = "archive_record" /\ last.exc = "none" /\ last.pre = "Off"
    /\ now > 0
    /\ \E i \in Rows(data) : data.rows[i]["RecStatus"] = "Off" /\ data.rows[i]["RecTimestamp"] = now

\* C6: an edit whose key matches no record of the table leaves the table
\* unchanged and raises no error.
C6_EditOfMissingKeyIsReported ==
    [][HasRows(data) =>
         /\ \A e \in EditCalls(cls) :
               edit_record(AbsentRecId, e[1], e[2]) => last'.exc = "none" /\ data' = data
         /\ \A e \in EditCalls(cls) :
               acoes_edit_record(AbsentCod, e[1], e[2]) => last'.exc = "none" /\ data' = data]_vars


\* C7 as claimed: an insert of a record with a None field, through any
\* entry point, leaves the table and the stored layer unchanged and returns
\* False.
NullInputs == InteractiveDicts \cup {With(FullAcao("sub 1", "d"), "desc_acao", None_)}

Rejected ==
    /\ data' = data
    /\ store' = store
    /\ last'.exc = "none"
    /\ last'.ret = "False"

C8_InsertAppendsOneRow ==
    [][\A d \in InsertDicts(cls) : insert_step(d) /\ last'.exc = "none" =>
          /\ Len(data'.rows) = Len(data.rows) + 1
          /\ LastRow(data')["RecId"] = _next_recid(data)
          /\ LastRow(data')["RecStatus"] = "On"
          /\ LastRow(data')["RecTable"] = cls
          /\ LastRow(data')["RecTimestamp"] = now
          /\ \A i \in Rows(data) : \A k \in data.columns \ Derived(cls) :
                data'.rows[i][k] = data.rows[i][k]]_vars

C8_Witness ==
    /\ last.op = "insert_record" /\ last.exc = "none"
    /\ Len(data.rows) = 2
    /\ data.rows[1]["RecStatus"] = "Off"
    /\ data.rows[2]["RecStatus"] = "On" /\ data.rows[2]["RecTimestamp"] = now
    /\ data.rows[1]["RecTimestamp"] < now

\* the derived column is what the operator gives on the table
DerivedIsRecomputed(df) ==
    cls = "acoes" => [i \in Rows(df) |-> df.rows[i]["cod_acao"]] = update_acoes_codes(df)

\* C9 as claimed: an edit of an existing record replaces every field the
\* change set gives (RecTimestamp aside) with the value given, sets the
\* RecTimestamp to the time of the edit, and the derived column is the
\* operator's.
EditReplacesGiven(id, d) ==
    /\ last'.exc = "none"
    /\ SameRecIds
    /\ \A i \in Named(id) :
          /\ \A k \in ((DOMAIN d) \cap data.columns) \ {"RecTimestamp"} : data'.rows[i][k] = d[k]
          /\ data'.rows[i]["RecTimestamp"] = now
    /\ DerivedIsRecomputed(data')

C9_EditReplacesGivenFields ==
    [][/\ \A id \in RecIds(data), e \in EditCalls(cls) :
             edit_record(id, e[1], e[2]) => EditReplacesGiven(id, e[1])
       /\ \A cod \in CodArgs(data) \ {AbsentCod}, e \in EditCalls(cls) :
             acoes_edit_record(cod, e[1], e[2]) =>
                EditReplacesGiven(first_rec_id(data, cod), e[1])]_vars

\* C9 as amended: the edit replaces exactly the fields of the change set it
\* accepts: with filter_dict the data columns of the table, without it every
\* column; never RecId, RecTimestamp or a derived column.  The record's
\* RecTimestamp becomes the time of the edit, every other cell of the table
\* outside the derived column keeps its value, and the derived column is
\* the operator's on the edited table.
Accepted(d, filter_dict) ==
    {k \in (DOMAIN d) \cap data.columns :
        /\ k \notin {"RecId", "RecTimestamp"} \cup Derived(cls)
        /\ filter_dict => k \in Range(columns_data(cls))}

EditReplacesAccepted(id, d, filter_dict) ==
    /\ last'.exc = "none"
    /\ SameRecIds
    /\ data'.columns = data.columns
    /\ \A i \in Rows(data) : \A k \in data.columns \ Derived(cls) :
          data'.rows[i][k] =
             IF i \in Named(id) /\ k \in Accepted(d, filter_dict) THEN d[k]
             ELSE IF i \in Named(id) /\ k = "RecTimestamp" THEN now
             ELSE data.rows[i][k]
    /\ DerivedIsRecomputed(data')

C9_EditReplacesAcceptedFields ==
    [][/\ \A id \in RecIds(data), e \in EditCalls(cls) :
             edit_record(id, e[1], e[2]) => EditReplacesAccepted(id, e[1], e[2])
       /\ \A cod \in CodArgs(data) \ {AbsentCod}, e \in EditCalls(cls) :
             acoes_edit_record(cod, e[1], e[2]) =>
                EditReplacesAccepted(first_rec_id(data, cod), e[1], e[2])]_vars

C9_Witness ==
    /\ cls = "acoes"
    /\ last.op = "edit_record" /\ last.exc = "none" /\ last.pre = "On"
    /\ now > 0
    /\ Len(data.rows) = 2
    /\ \E i \in Rows(data) :
          /\ data.rows[i]["desc_acao"] = "e"
          /\ data.rows[i]["RecTimestamp"] = now
          /\ data.rows[i]["cod_acao"] # "novo"


\* C10: view() returns exactly the records whose RecStatus is On, without
\* the four base columns; with recent = N it returns at most N rows, the N
\* active records of greatest RecTimestamp (all of them when fewer are
\* active).
ViewIsTheRecentActive(n) ==
    LET out == view_out'
        on == {i \in Rows(data) : data.rows[i]["RecStatus"] = "On"}
        cols == data.columns \ {"RecId", "RecTable", "RecTimestamp", "RecStatus"}
        m == IF n = 0 - 1 \/ n > Cardinality(on) THEN Cardinality(on) ELSE n
    IN  /\ last'.exc = "none"
        /\ out.columns = cols
        /\ Len(out.rows) = m
        /\ \E p \in [1..m -> on] :
              /\ \A i, j \in 1..m : i # j => p[i] # p[j]
              /\ \A j \in 1..m : out.rows[j] = [k \in cols |-> data.rows[p[j]][k]]
              /\ \A i \in Range(p), j \in on \ Range(p) :
                    data.rows[i]["RecTimestamp"] >= data.rows[j]["RecTimestamp"]

C10_ViewReturnsActiveRows ==
    [][~data.none =>
          \A fs \in BOOLEAN, n \in Recents : view_data(fs, n) => ViewIsTheRecentActive(n)]_vars

C10_Witness ==
    /\ last.op = "view_recent" /\ last.exc = "none"
    /\ Len(view_out.rows) = 1
    /\ Len(data.rows) = 3
    /\ \E i, j, k \in Rows(data) :
          /\ data.rows[i]["RecStatus"] = "Off"
          /\ data.rows[j]["RecStatus"] = "On" /\ data.rows[k]["RecStatus"] = "On"
          /\ data.rows[j]["RecTimestamp"] < data.rows[k]["RecTimestamp"]

Changed == data' # data \/ store' # store

\* the code is in no row of a table that has the column
NotFound(cod) == ~data.none /\ "cod_acao" \in data.columns /\ cod \notin cod_acao_set(data)

Found(cod) == ~data.none /\ "cod_acao" \in data.columns /\ cod \in cod_acao_set(data)

Declined == ~Changed /\ last'.exc = "none" /\ last'.ret = "False"

\* C12 as claimed: in insert, edit and remove the table and the stored
\* layer change only when the answer is "s"; on any other answer, and when
\* the code is not found, both are unchanged and the call returns False.
C12_ChangeOnlyOnAnswerS ==
    [][\A a \in Answers :
          /\ \A d \in InteractiveDicts :
                acoes_insert(d, a) => /\ Changed => a = "s"
                                      /\ a # "s" => Declined
          /\ \A cod \in CodArgs(data), d \in InteractiveEdits :
                acoes_edit(cod, d, a) => /\ Changed => a = "s"
                                         /\ Found(cod) /\ DOMAIN d \subseteq data.columns /\ a # "s"
                                               => Declined
                                         /\ NotFound(cod) => Declined
          /\ \A cod \in CodArgs(data) :
                acoes_remove(cod, a) => /\ Changed => a = "s"
                                        /\ Found(cod) /\ a # "s" => Declined
                                        /\ NotFound(cod) => Declined]_vars

\* C12 as amended: the table and the stored layer change only when the
\* flow reaches its question and the answer, lowercased and stripped of
\* surrounding blanks, is "s"; on any other answer, and when the code is in
\* no row of the table, both are unchanged and the call returns False.
C12_ChangeOnlyOnNormalisedS ==
    [][\A a \in Answers :
          /\ \A d \in InteractiveDicts :
                acoes_insert(d, a) => /\ Changed => lower_strip(a) = "s" /\ has_None(d) = "-"
                                      /\ lower_strip(a) # "s" => Declined
          /\ \A cod \in CodArgs(data), d \in InteractiveEdits :
                acoes_edit(cod, d, a) =>
                   /\ Changed => /\ lower_strip(a) = "s"
                                 /\ Found(cod) /\ DOMAIN d \subseteq data.columns
                   /\ Found(cod) /\ DOMAIN d \subseteq data.columns /\ lower_strip(a) # "s"
                         => Declined
                   /\ NotFound(cod) => Declined
          /\ \A cod \in CodArgs(data) :
                acoes_remove(cod, a) => /\ Changed => lower_strip(a) = "s" /\ Found(cod)
                                        /\ Found(cod) /\ lower_strip(a) # "s" => Declined
                                        /\ NotFound(cod) => Declined]_vars

C12_Witness ==
    /\ last.op \in {"edit", "remove"} /\ last.ret = "False" /\ last.pre = "On"
    /\ file_data /\ HasRows(data)
    /\ store = data

\* C13: a confirmed insert, edit or remove has saved before it returns: at
\* the return of True the stored layer is the table in memory.
C13_ConfirmedIsPersisted ==
    [][\A a \in Answers :
          /\ \A d \in InteractiveDicts : acoes_insert(d, a) /\ last'.ret = "True" => store' = data'
          /\ \A cod \in CodArgs(data), d \in InteractiveEdits :
                acoes_edit(cod, d, a) /\ last'.ret = "True" => store' = data'
          /\ \A cod \in CodArgs(data) :
                acoes_remove(cod, a) /\ last'.ret = "True" => store' = data']_vars

\* C14: no failure propagates as a raised error: on a table with rows, an
\* edit, an archive, a get_record or a view_acao whose key names no record,
\* and a load of a layer the file lacks, end without an exception.
C14_NoFailureIsRaised ==
    [][/\ store.none => (load_data(AnyRows) => last'.exc = "none")
       /\ HasRows(data) =>
             /\ edit_record(AbsentRecId, [desc_subcomponente |-> "e"], TRUE) => last'.exc = "none"
             /\ archive_record(AbsentRecId) => last'.exc = "none"
             /\ get_record_data(AbsentRecId) => last'.exc = "none"
             /\ acoes_edit_record(AbsentCod, [desc_acao |-> "e"], TRUE) => last'.exc = "none"
             /\ acoes_archive_record(AbsentCod) => last'.exc = "none"
             /\ acoes_view_acao(AbsentCod) => last'.exc = "none"]_vars

\* C15: save overwrites without looking: a save of a table that has a file
\* succeeds whatever the layer holds, and afterwards the layer is the
\* saver's table, so what another session saved in between is gone.
C15_SaveOverwritesTheLayer ==
    [][save_data /\ file_data => last'.ret = "True" /\ store' = data]_vars

\* both sessions loaded the layer, inserted and saved; the layer is the
\* later saver's table and lacks the row the earlier one inserted and saved
C15_Witness ==
    /\ last.op = "save" /\ last.ret = "True"
    /\ other.last.op = "save" /\ other.last.ret = "True"
    /\ store = data
    /\ Len(data.rows) = 3 /\ Len(other.data.rows) = 3
    /\ \A i \in 1..2 : other.data.rows[i] = data.rows[i]
    /\ other.data.rows[3] \notin Range(store.rows)

\* ------------------------------------------------------- the database views
Active(df) == {i \in Rows(df) : df.rows[i]["RecStatus"] = "On"}

\* C16: join_db on a database whose action records are all archived gives
\* no row, whatever the sub-component and component tables hold.
C16_JoinOfArchivedIsEmpty ==
    [][join_data /\ ~data.none /\ Active(data) = {} =>
          last'.exc = "none" /\ Len(view_out'.rows) = 0]_vars

C16_Witness ==
    /\ last.op = "join_db" /\ last.exc = "none"
    /\ Len(data.rows) = 2 /\ Active(data) = {}
    /\ Active(db.subcomponentes) # {} /\ Active(db.componentes) # {}
    /\ Len(view_out.rows) = 0

\* the rows of the scale table that are the wildcard
Wildcards(d) ==
    {i \in Rows(d.escala) : /\ d.escala.rows[i]["categoria"] = "UF"
                            /\ d.escala.rows[i]["escala_acao"] = Wildcard}

\* the rows of the join view the wildcard matches, and how often each occurs
MatchedRows == {r \in Range(join_db(data, db).rows) : contains(r["escala_acao"], Wildcard)}

TimesInJoin(r) ==
    Cardinality({i \in Rows(join_db(data, db)) : join_db(data, db).rows[i] = r})

Labelled(r, uf) ==
    [k \in (DOMAIN r) \cup {"escala_local"} |-> IF k = "escala_local" THEN uf ELSE r[k]]

\* C17: with the wildcard in the scale table, expand_db gives
\* each row of the join view that the wildcard matches once for each of the
\* nine geographies: k matched rows give 9*k expanded rows.
C17_WildcardGivesNinePerRow ==
    [][expand_data /\ last'.exc = "none" /\ Wildcards(db) # {} =>
          \A r \in MatchedRows : \A i \in 1..n_ufs :
             CopiesIn(Labelled(r, ls_ufs[i]), view_out'.rows) = TimesInJoin(r)]_vars

\* C18: in the row of totals of summarize, contagem is the number of active
\* action records, for every grouping key and every scale table.
C18_TotalCountIsActiveRecords ==
    [][\A subset \in Subsets :
          summarize_data(subset) /\ last'.exc = "none" =>
             \A r \in BagToSet(view_out'.rows) :
                r[summarize_key(subset)] = "totais" =>
                   r["contagem"] = Cardinality(Active(data))]_vars

\* ------------------------------------------------------ the action codes
\* a call of insert_record, or of edit_record or archive_record with the
\* code of a record, on the actions table, that returned
AcoesStep ==
    /\ cls = "acoes"
    /\ InsertStep \/ EditStep \/ ArchiveStep
    /\ last'.exc = "none" /\ last'.pre # "absent"

\* the place of an active row among the active rows of its own
\* sub-component, in table order
PlaceInGroup(df, i) ==
    Cardinality({j \in 1..i : /\ df.rows[j]["RecStatus"] = "On"
                              /\ df.rows[j]["cod_subcomponente"] = df.rows[i]["cod_subcomponente"]})

\* C19: after every insert, edit or archive on the actions table, the
\* active records of each sub-component carry "acao <prefix>.1" ...
\* "acao <prefix>.k" in table order, <prefix> being the last token of the
\* record's own cod_subcomponente, in every order of the rows.
C19_CodesAreSequentialPerGroup ==
    [][AcoesStep =>
          \A i \in Active(data') :
             data'.rows[i]["cod_acao"] =
                "acao " \o split_last(data'.rows[i]["cod_subcomponente"]) \o "."
                        \o StrText(PlaceInGroup(data', i))]_vars

\* C20: after every insert, edit or archive on the actions table, a record
\* carries the code "acao arquivada" if and only if its RecStatus is Off.
C20_ArchivedCodeIffStatusOff ==
    [][AcoesStep =>
          \A i \in Rows(data') :
             data'.rows[i]["cod_acao"] = "acao arquivada" <=> data'.rows[i]["RecStatus"] = "Off"]_vars

\* C21: after any sequence of inserts, edits and archives on the actions
\* table no two active records carry the same cod_acao, so a call by
\* cod_acao acts on the one record the caller named.
C21_ActiveCodesAreUnique ==
    [][AcoesStep =>
          \A i, j \in Active(data') :
             i # j => data'.rows[i]["cod_acao"] # data'.rows[j]["cod_acao"]]_vars

\* the table with every cell the operator does not read replaced
Scrambled(df) ==
    Frame(df.columns,
          [i \in Rows(df) |->
              [k \in df.columns |->
                  IF k \in {"cod_subcomponente", "RecStatus"} THEN df.rows[i][k]
                  ELSE IF k = "RecId" THEN <<>>
                  ELSE IF k = "RecTimestamp" \/ k \in NumericColumns THEN 0
                  ELSE "x"]])

\* the call is an insert or an edit of an existing action that supplies the
\* code "novo"
SuppliesCode ==
    \/ \E sub \in Subs : acoes_insert_record(FullAcao(sub, "d"), AnyRows)
    \/ \E cod \in CodArgs(data) \ {AbsentCod} :
          acoes_edit_record(cod, [cod_acao |-> "novo"], TRUE)

\* C22: the recomputed cod_acao column is a function of the row order, the
\* cod_subcomponente and the RecStatus of the rows alone; refresh_data
\* applied twice gives the table it gives applied once; and after an insert
\* or an edit that supplies a cod_acao the column is the operator's and no
\* row carries the supplied value.
C22_CodesAreAPureFunction ==
    [][/\ HasRows(data) =>
             /\ update_acoes_codes(Scrambled(data)) = update_acoes_codes(data)
             /\ refresh_data(cls, refresh_data(cls, data).data) = refresh_data(cls, data)
       /\ SuppliesCode /\ last'.exc = "none" =>
             /\ DerivedIsRecomputed(data')
             /\ "novo" \notin cod_acao_set(data')]_vars

C22_Witness ==
    /\ last.op = "edit_record" /\ last.exc = "none" /\ last.pre = "On"
    /\ Len(data.rows) = 3
    /\ data.rows[1]["cod_subcomponente"] = "sub 1"
    /\ data.rows[2]["cod_subcomponente"] = "sub 2"
    /\ data.rows[3]["cod_subcomponente"] = "sub 1"
    /\ data.rows[2]["RecStatus"] = "Off"
    /\ "novo" \notin cod_acao_set(data)

\* ------------------------------------------------------ matching a scale
Separators == {" ", ",", ";", "/"}

\* the tokens of a label: its longest stretches without a separator
Tokens(text) ==
    LET ch(i) == SubSeq(text, i, i)
        ends(i) == {e \in i..Len(text) :
                      /\ \A x \in i..e : ch(x) \notin Separators
                      /\ i = 1 \/ ch(i - 1) \in Separators
                      /\ e = Len(text) \/ ch(e + 1) \in Separators}
    IN  UNION {{SubSeq(text, i, e) : e \in ends(i)} : i \in 1..Len(text)}

\* C23: for a scale row of category UF whose scale is one of the nine UF
\* codes, expand_db selects an action row only when that code is a token of
\* the action's escala_acao.
C23_UFMatchesAToken ==
    [][expand_data /\ last'.exc = "none" =>
          \A r \in BagToSet(view_out'.rows) :
             r["escala_local"] \in Range(ls_ufs) =>
                r["escala_local"] \in Tokens(r["escala_acao"])]_vars

\* --------------------------------------------------- frames of the edits
\* the table `new` differs from the table only in the rows the id names, and
\* there in no base field but RecTimestamp
Confined(id, new) ==
    /\ new.columns = data.columns
    /\ Len(new.rows) = Len(data.rows)
    /\ \A i \in Rows(data) :
          /\ \A k \in {"RecId", "RecTable", "RecStatus"} : new.rows[i][k] = data.rows[i][k]
          /\ i \notin Named(id) => new.rows[i] = data.rows[i]

\* C24: RecordTable.edit_record with filter_dict=True changes no base field
\* of its target other than RecTimestamp, changes no field of any other
\* row, and keeps the number and the order of the rows.
C24_FilteredEditIsConfined ==
    [][/\ \A id \in RecIds(data), e \in EditCalls(cls) :
             e[2] /\ edit_record(id, e[1], e[2]) =>
                last'.exc = "none" /\ Confined(id, data')
       /\ HasRows(data) =>
             \A id \in RecIds(data), e \in EditCalls(cls) :
                e[2] => Confined(id, RecordTable_edit_record(cls, data, id, e[1], TRUE, now).data)]_vars

C24_Witness ==
    /\ cls = "subcomponentes"
    /\ last.op = "edit_record" /\ last.exc = "none" /\ last.pre = "On"
    /\ now > 0
    /\ Len(data.rows) = 2
    /\ data.rows[1]["RecTimestamp"] = now /\ data.rows[1]["RecStatus"] = "On"
    /\ data.rows[1]["cod_subcomponente"] = "sub 1"
    /\ data.rows[2]["RecTimestamp"] < now

\* the step is a call of edit_record with filter_dict=True
FilteredEditStep ==
    \/ \E id \in RecIdArgs(data), e \in EditCalls(cls) : e[2] /\ edit_record(id, e[1], e[2])
    \/ \E cod \in CodArgs(data), e \in EditCalls(cls) :
          e[2] /\ acoes_edit_record(cod, e[1], e[2])

\* C25: a record whose RecStatus is Off stays Off through insert_record,
\* archive_record and edit_record with filter_dict=True.
C25_ArchivedStaysArchived ==
    [][InsertStep \/ ArchiveStep \/ FilteredEditStep =>
          /\ Len(data'.rows) >= Len(data.rows)
          /\ \A i \in Rows(data) :
                data.rows[i]["RecStatus"] = "Off" =>
                   /\ data'.rows[i]["RecId"] = data.rows[i]["RecId"]
                   /\ data'.rows[i]["RecStatus"] = "Off"]_vars

C25_Witness ==
    /\ last.op = "edit_record" /\ last.exc = "none" /\ last.pre = "Off"
    /\ now > 0
    /\ \E i \in Rows(data) :
          /\ data.rows[i]["RecId"] = <<9, 9, 9, 9>>
          /\ data.rows[i]["cod_subcomponente"] = "sub 2"
          /\ data.rows[i]["RecStatus"] = "Off"
          /\ data.rows[i]["RecTimestamp"] = now

\* the rows of the sub-components other than `sub` keep their code
OthersKeepCodes(sub) ==
    \A i \in Rows(data) :
       data.rows[i]["cod_subcomponente"] # sub =>
          data'.rows[i]["cod_acao"] = data.rows[i]["cod_acao"]

\* C26: archiving or inserting an action changes cod_acao only for records
\* of the same sub-component: every record of another sub-component has the
\* same cod_acao before and after the operation.
C26_OtherGroupsKeepTheirCodes ==
    [][/\ \A sub \in Subs :
             acoes_insert_record(FullAcao(sub, "d"), AnyRows) /\ last'.exc = "none" =>
                OthersKeepCodes(sub)
       /\ \A cod \in CodArgs(data) \ {AbsentCod} :
             acoes_archive_record(cod) /\ last'.exc = "none" =>
                \A i \in Named(first_rec_id(data, cod)) :
                   OthersKeepCodes(data.rows[i]["cod_subcomponente"])]_vars

\* C27: a confirmed AcoesRT.edit of an existing action code, on a table
\* whose codes can be recomputed, runs to completion and returns True, also
\* when the change set alters the record's cod_subcomponente or RecStatus.
C27_ConfirmedEditReturnsTrue ==
    [][\A cod \in CodArgs(data), d \in InteractiveEdits, a \in Answers :
          /\ acoes_edit(cod, d, a)
          /\ Found(cod) /\ update_acoes_codes_exc(data) = "none" /\ DOMAIN d \subseteq data.columns /\ lower_strip(a) = "s"
          => last'.exc = "none" /\ last'.ret = "True"]_vars

\* -------------------------------------------------------------- loading
\* C28: loading keeps the RecIds unique: a load_data on a table whose RecIds
\* are pairwise distinct leaves them pairwise distinct, also when the same
\* layer is loaded a second time.
C28_LoadKeepsRecIdsUnique ==
    [][load_data(AnyRows) /\ last'.exc = "none" /\ Unique(data) => Unique(data')]_vars

\* ------------------------------------------------------------- inserting
\* C29: insert_record ignores RecId, RecTable, RecTimestamp and RecStatus of
\* the input dictionary and drops the keys that are no data column of the
\* schema: the new row has the next id, the table's name, the time of the
\* call and status On, and the accepted fields as given.
C29_InsertSetsTheBookkeeping ==
    [][\A d \in InsertDicts(cls) : insert_step(d) /\ last'.exc = "none" =>
          LET row == LastRow(data')
              schema == Range(columns_data(cls))
          IN  /\ row["RecId"] = _next_recid(data)
              /\ row["RecTable"] = cls
              /\ row["RecTimestamp"] = now
              /\ row["RecStatus"] = "On"
              /\ \A k \in ((DOMAIN d) \cap schema) \ Derived(cls) : row[k] = d[k]
              /\ \A k \in (DOMAIN d) \ (schema \cup Range(columns_base)) :
                    k \notin data'.columns]_vars

C29_Witness ==
    /\ last.op = "insert_record" /\ last.exc = "none"
    /\ Len(data.rows) = 2
    /\ data.rows[1]["RecId"] = <<0, 0, 0, 1>>
    /\ data.rows[2]["RecId"] = <<0, 0, 0, 2>>
    /\ data.rows[2]["cod_subcomponente"] = "sub 2"
    /\ data.rows[2]["RecStatus"] = "On" /\ data.rows[2]["RecTable"] = cls
    /\ "obs" \notin data.columns

\* ---------------------------------------------------------------- viewing
\* C30: view returns no archived record for either value of filter_status:
\* view(filter_status=False) gives what view(filter_status=True) gives, the
\* active records.
C30_ViewIgnoresFilterStatus ==
    [][~data.none =>
          \A n \in Recents :
             /\ view_filter(data, FALSE, n) = view_filter(data, TRUE, n)
             /\ view_data(FALSE, n) => ViewIsTheRecentActive(n)]_vars

C30_Witness ==
    /\ last.op = "view" /\ last.exc = "none" /\ last.pre = "unfiltered"
    /\ Len(data.rows) = 3
    /\ Cardinality(Active(data)) = 2
    /\ Len(view_out.rows) = 2

====
